---- MODULE Spec2Model ----
(***************************************************************************)
(* Token-Gate: a per-user token-bucket rate limiter (rate_limiter.hpp) and *)
(* an LRU cache (lru_cache.hpp).                                           *)
(*                                                                         *)
(* The specifications of this module:                                      *)
(*   SpecBucket    one TokenBucket driven by one caller and a clock        *)
(*   SpecAccessor  one TokenBucket, with and without approxTokens calls    *)
(*   SpecLRU       one LRUCache driven by get and put                      *)
(*   Spec          the RateLimiter of the tests, called by several threads *)
(*   SpecUsers     the same, two threads making more calls                 *)
(*   SpecShared    the same, two threads calling for the users of main.cpp *)
(*   SpecMain      the RateLimiter of main.cpp, called by main's thread    *)
(*   SpecMetrics   one Metrics, its recorders and a reader                 *)
(*   SpecConfig    one object constructed with any arguments               *)
(*                                                                         *)
(* Time is counted in ticks of the steady clock; TicksPerMs ticks make one *)
(* millisecond, so that the truncation of duration_cast<milliseconds> is   *)
(* visible.  Tokens are counted in thousandths of a token, the unit in     *)
(* which (msPassed / 1000.0) * refillRatePerSec is a whole number; the     *)
(* rounding of double arithmetic is not modelled.                          *)
(***************************************************************************)
EXTENDS Integers, Sequences, FiniteSets, TLC

VARIABLES
    now,        \* steady_clock::now(), in ticks
    advances,   \* number of clock advances so far (bounds the run)
    bucket,     \* SpecBucket: the TokenBucket under test
    results,    \* SpecBucket: the values returned by allowRequest, in call order
    streak,     \* SpecBucket: consecutive true results since the clock last moved
    lastCall,   \* SpecBucket: what the latest allowRequest call saw and refilled
    shadow,     \* SpecAccessor: a second bucket, given the same clock and the same
                \*       allowRequest calls but no approxTokens call, and its results
    cache,      \* SpecLRU: the LRUCache
    order,      \* SpecLRU: keys by last touch (put or successful get), newest first
    lastOp,     \* SpecLRU: the latest operation and what it did to the cache
    written,    \* SpecLRU: per key ever put, the value of its latest put
    config,     \* Spec: the constructor's arguments, and the callers' users, calls
                \*       and clock advances
    buckets,    \* Spec: RateLimiter::buckets, userId -> bucket address
    heap,       \* Spec: the UserBucket objects allocated so far, by address
    mapMtx,     \* Spec: RateLimiter::mapMtx, its owner or NoThread
    pc,         \* Spec: each thread's position in isRequestAllowed
    arg,        \* Spec: each thread's userId argument
    ub,         \* Spec: each thread's local shared_ptr ub (an address or Null)
    allowed,    \* Spec: each thread's local allowed
    global_,    \* Spec: Metrics::global_
    perUser_,   \* Spec: Metrics::perUser_
    returned,   \* Spec: per userId, how many calls returned true and false
    calls,      \* Spec: number of isRequestAllowed calls started (bounds the run)
    absent,     \* Spec: per thread, until it locks the bucket: its userId had no
                \*       bucket when it called
    recency,    \* Spec: the recency store main.cpp documents, fed the same accesses
    seen        \* SpecMetrics: what the reader's latest global() and user() returned

bvars == <<bucket, results, streak, lastCall, shadow>>
lvars == <<cache, order, lastOp, written>>
rvars == <<config, buckets, heap, mapMtx, pc, arg, ub, allowed, global_, perUser_,
           returned, calls, absent, recency, seen>>
cvars == <<now, advances>>
vars == <<cvars, bvars, lvars, rvars>>

\* ------------------------------------------------------------------ bounds
TicksPerMs == 2
MaxAdvances == 3
MaxCapacity == 2
MaxRate == 2
MaxCalls == 5

\* double add = (msPassed / 1000.0) * refillRatePerSec: thousandths per token
MilliPerToken == 1000

Min(a, b) == IF a <= b THEN a ELSE b

\* the waits between two calls: one tick (less than 1 ms), 1 ms, 500 ms, 1500 ms
Steps == {1, TicksPerMs, 500 * TicksPerMs, 1500 * TicksPerMs}

\* ------------------------------------------------------------ TokenBucket
\* TokenBucket(int cap, int ratePerSec) at time t
NewTokenBucket(cap, ratePerSec, t) ==
    [capacity |-> cap * MilliPerToken,
     tokens |-> cap * MilliPerToken,
     refillRatePerSec |-> ratePerSec,
     lastRefillTime |-> t]

\* duration_cast<milliseconds>(now - lastRefillTime).count()
msPassed(b, t) == (t - b.lastRefillTime) \div TicksPerMs

\* (mutant of refillTokensLocked) the sum is not capped at capacity
RefillNoCap(b, t) ==
    IF msPassed(b, t) <= 0 THEN b
    ELSE [b EXCEPT !.tokens = b.tokens + msPassed(b, t) * b.refillRatePerSec,
                   !.lastRefillTime = t]

\* (mutant of refillTokensLocked) the elapsed time is not cast to milliseconds
RefillNoTruncation(b, t) ==
    IF t - b.lastRefillTime <= 0 THEN b
    ELSE [b EXCEPT !.tokens = Min(b.capacity,
                       b.tokens + ((t - b.lastRefillTime) * b.refillRatePerSec)),
                   !.lastRefillTime = t]

\* void refillTokensLocked() at time t
refillTokensLocked(b, t) ==
    IF msPassed(b, t) <= 0 THEN b
    ELSE [b EXCEPT !.tokens = Min(b.capacity,
                       b.tokens + msPassed(b, t) * b.refillRatePerSec),
                   !.lastRefillTime = t]

\* if (tokens >= 1.0)
HasToken(b) == b.tokens >= MilliPerToken

\* tokens -= 1.0
TakeToken(b) == [b EXCEPT !.tokens = b.tokens - MilliPerToken]

\* (mutant of allowRequest) an allowed request takes no token
AllowWithoutDeduct(b, t) ==
    LET r == refillTokensLocked(b, t)
    IN [b |-> r, ret |-> HasToken(r)]

\* the body of allowRequest under its lock: the bucket after, and the result
allowRequest(b, t) ==
    LET r == refillTokensLocked(b, t)
    IN IF HasToken(r)
       THEN [b |-> TakeToken(r), ret |-> TRUE]
       ELSE [b |-> r, ret |-> FALSE]

\* the body of approxTokens under its lock: the bucket after, and the result
approxTokens(b, t) ==
    LET r == refillTokensLocked(b, t)
    IN [b |-> r, ret |-> r.tokens]

\* ---------------------------------------------------------------- LRUCache
Users == {"user1", "user2", "user3", "user4"}
MaxCacheCapacity == 3
Values == {1, 2}
NoValue == 0

\* LRUCache(size_t cap): an empty list and an empty map
NewLRUCache(cap) ==
    [capacity |-> cap,
     cacheList |-> <<>>,           \* node addresses, front first
     node |-> <<>>,                \* the list nodes: address -> <<key, value>>
     cacheMap |-> <<>>]            \* key -> the address its iterator refers to

Without(seq, x) == SelectSeq(seq, LAMBDA y : y # x)
Except(f, x) == [y \in DOMAIN f \ {x} |-> f[y]]

\* (mutant of splice) the node is linked at the front and left where it was
SpliceCopy(list, it) == <<it>> \o list

\* cacheList.splice(cacheList.begin(), cacheList, it)
splice(list, it) == <<it>> \o Without(list, it)

\* the address the allocator gives the next list node
NewNode(c) == CHOOSE n \in 1..(Cardinality(DOMAIN c.node) + 1) : n \notin DOMAIN c.node

\* (mutant of get) a found entry is moved to the back of the list
GetToBack(c, key) ==
    IF key \notin DOMAIN c.cacheMap
    THEN [c |-> c, found |-> FALSE, value |-> NoValue]
    ELSE LET it == c.cacheMap[key]
         IN [c |-> [c EXCEPT !.cacheList = Without(c.cacheList, it) \o <<it>>],
             found |-> TRUE,
             value |-> c.node[it][2]]

\* bool get(const Key &key, Value &value): the cache after, found, and value
get(c, key) ==
    IF key \notin DOMAIN c.cacheMap
    THEN [c |-> c, found |-> FALSE, value |-> NoValue]
    ELSE LET it == c.cacheMap[key]
         IN [c |-> [c EXCEPT !.cacheList = splice(c.cacheList, it)],
             found |-> TRUE,
             value |-> c.node[it][2]]

\* (mutant of putAbsent) the eviction removes the front, the most recently used
EvictFront(c, key, value) ==
    LET full == Len(c.cacheList) = c.capacity
        first == c.cacheList[1]
        last == c.node[first]
        kept == IF full
                THEN [c EXCEPT !.cacheMap = Except(c.cacheMap, last[1]),
                               !.cacheList = Tail(c.cacheList),
                               !.node = Except(c.node, first)]
                ELSE c
        n == NewNode(kept)
    IN [kept EXCEPT !.cacheList = <<n>> \o kept.cacheList,
                    !.node = (n :> <<key, value>>) @@ kept.node,
                    !.cacheMap = (key :> n) @@ kept.cacheMap]

\* (mutant of putAbsent) the insertion never evicts
InsertNoEvict(c, key, value) ==
    LET n == NewNode(c)
    IN [c EXCEPT !.cacheList = <<n>> \o c.cacheList,
                 !.node = (n :> <<key, value>>) @@ c.node,
                 !.cacheMap = (key :> n) @@ c.cacheMap]

\* the else branch of put: evict the back of a full list, then insert at the front
putAbsent(c, key, value) ==
    LET full == Len(c.cacheList) = c.capacity
        back == c.cacheList[Len(c.cacheList)]
        last == c.node[back]
        kept == IF full
                THEN [c EXCEPT !.cacheMap = Except(c.cacheMap, last[1]),
                               !.cacheList = SubSeq(c.cacheList, 1, Len(c.cacheList) - 1),
                               !.node = Except(c.node, back)]
                ELSE c
        n == NewNode(kept)
    IN [kept EXCEPT !.cacheList = <<n>> \o kept.cacheList,
                    !.node = (n :> <<key, value>>) @@ kept.node,
                    !.cacheMap = (key :> n) @@ kept.cacheMap]

\* (mutant of put) a present key gets its new value where it is in the list
PutInPlace(c, key, value) ==
    IF key \in DOMAIN c.cacheMap
    THEN [c EXCEPT !.node[c.cacheMap[key]] = <<key, value>>]
    ELSE putAbsent(c, key, value)

\* void put(const Key &key, const Value &value): the cache after
put(c, key, value) ==
    IF key \in DOMAIN c.cacheMap
    THEN LET it == c.cacheMap[key]
         IN [c EXCEPT !.node[it] = <<key, value>>,
                      !.cacheList = splice(c.cacheList, it)]
    ELSE putAbsent(c, key, value)

\* the keys the cache holds, front (most recently used) first
ListKeys(c) == [i \in 1..Len(c.cacheList) |-> c.node[c.cacheList[i]][1]]
Range(seq) == {seq[i] : i \in 1..Len(seq)}

\* ------------------------------------------------- values of unused state
NoThread == 0
Null == 0
NoCall == [kind |-> "none", afterDeny |-> FALSE, elapsed |-> 0, at |-> 0,
           before |-> NewTokenBucket(1, 1, 0), refilled |-> 0, ret |-> FALSE]
NoOp == [op |-> "none", key |-> "", found |-> FALSE, value |-> NoValue,
         wasFull |-> FALSE, lru |-> "", evicted |-> {}, changed |-> {}]

NoSeen == [pc |-> "idle", global |-> [allowed |-> 0, blocked |-> 0],
           key |-> "", user |-> [allowed |-> 0, blocked |-> 0]]

NoLimiter ==
    /\ buckets = <<>> /\ heap = <<>> /\ mapMtx = NoThread
    /\ pc = <<>> /\ arg = <<>> /\ ub = <<>> /\ allowed = <<>>
    /\ global_ = <<0, 0>> /\ perUser_ = <<>>
    /\ returned = <<>> /\ calls = 0 /\ absent = <<>> /\ recency = NewLRUCache(1)
    /\ seen = NoSeen

NoShadow == [b |-> NewTokenBucket(1, 1, 0), results |-> <<>>]

BucketUnused == bucket = NewTokenBucket(1, 1, 0) /\ results = <<>> /\ streak = 0
                /\ lastCall = NoCall /\ shadow = NoShadow
LRUUnused == cache = NewLRUCache(1) /\ order = <<>> /\ lastOp = NoOp /\ written = <<>>
LimiterUnused ==
    /\ config = <<>>
    /\ NoLimiter

\* ------------------------------------------------- SpecBucket: one bucket
\* TokenBucket bucket(cap, rate), as the tests construct it, at time 0
InitBucket ==
    /\ now = 0 /\ advances = 0
    /\ bucket \in {NewTokenBucket(c, r, 0) : c \in 1..MaxCapacity, r \in 1..MaxRate}
    /\ results = <<>> /\ streak = 0 /\ lastCall = NoCall /\ shadow = NoShadow
    /\ LRUUnused /\ LimiterUnused

\* std::this_thread::sleep_for, or any lapse of time between two calls
BucketAdvance ==
    \E d \in Steps :
        /\ advances < MaxAdvances
        /\ now' = now + d /\ advances' = advances + 1
        /\ streak' = 0
        /\ UNCHANGED <<bucket, results, lastCall, shadow, lvars, rvars>>

\* bucket.allowRequest()
BucketAllowRequest ==
    LET r == allowRequest(bucket, now)
    IN /\ Len(results) < MaxCalls
       /\ bucket' = r.b
       /\ results' = Append(results, r.ret)
       /\ streak' = IF r.ret THEN streak + 1 ELSE 0
       /\ lastCall' = [kind |-> "allowRequest",
                       afterDeny |-> lastCall.kind = "allowRequest" /\ ~lastCall.ret,
                       elapsed |-> now - lastCall.at,
                       at |-> now,
                       before |-> bucket,
                       refilled |-> r.b.tokens + (IF r.ret THEN MilliPerToken ELSE 0),
                       ret |-> r.ret]
       /\ UNCHANGED <<shadow, cvars, lvars, rvars>>

\* bucket.approxTokens()
BucketApproxTokens ==
    LET r == approxTokens(bucket, now)
    IN /\ bucket' = r.b
       /\ lastCall' = [kind |-> "approxTokens", afterDeny |-> FALSE,
                       elapsed |-> now - lastCall.at, at |-> now,
                       before |-> bucket, refilled |-> r.ret, ret |-> FALSE]
       /\ UNCHANGED <<results, streak, shadow, cvars, lvars, rvars>>

NextBucket == BucketAdvance \/ BucketAllowRequest \/ BucketApproxTokens
SpecBucket == InitBucket /\ [][NextBucket]_vars

\* ------------------------------------------------- SpecLRU: one LRUCache
InitLRU ==
    /\ now = 0 /\ advances = 0
    /\ cache \in {NewLRUCache(c) : c \in 1..MaxCacheCapacity}
    /\ order = <<>> /\ lastOp = NoOp /\ written = <<>>
    /\ BucketUnused /\ LimiterUnused

\* the keys a cache holds, and the value it stores for one of them
Keys(c) == DOMAIN c.cacheMap
Stored(c, k) == c.node[c.cacheMap[k]][2]

\* the key of ks touched longest ago, by the touch history; "" when ks is empty
LeastRecent(ks, touched) ==
    IF ks = {} THEN ""
    ELSE CHOOSE k \in ks :
            \E i \in 1..Len(touched) :
                /\ touched[i] = k
                /\ \A j \in (i + 1)..Len(touched) : touched[j] \notin ks

\* what an operation on cache c that left cache d did, as the caller sees it
Observed(op, k, v, found, c, d) ==
    [op |-> op, key |-> k, found |-> found, value |-> v,
     wasFull |-> Len(c.cacheList) = c.capacity,
     lru |-> LeastRecent(Keys(c), order),
     evicted |-> Keys(c) \ Keys(d),
     changed |-> {u \in (Keys(c) \cap Keys(d)) \ {k} : Stored(c, u) # Stored(d, u)}]

\* cache.get(key, value)
LRUGet ==
    \E k \in Users :
        LET r == get(cache, k)
        IN /\ cache' = r.c
           /\ order' = IF r.found THEN <<k>> \o Without(order, k) ELSE order
           /\ lastOp' = Observed("get", k, r.value, r.found, cache, r.c)
           /\ UNCHANGED <<written, cvars, bvars, rvars>>

\* cache.put(key, value)
LRUPut ==
    \E k \in Users, v \in Values :
        /\ cache' = put(cache, k, v)
        /\ order' = <<k>> \o Without(order, k)
        /\ lastOp' = Observed("put", k, v, k \in Keys(cache), cache, cache')
        /\ written' = (k :> v) @@ written
        /\ UNCHANGED <<cvars, bvars, rvars>>

NextLRU == LRUGet \/ LRUPut
SpecLRU == InitLRU /\ [][NextLRU]_vars

\* ------------------------------------------------- Spec: one RateLimiter
NumThreads == 2
MaxRequests == 2
MaxMainRequests == 6
MaxTicks == 1

\* RateLimiter limiter(1, 10, logger, metrics) of the tests
TestBucketCapacity == 1
TestRefillRate == 10
\* RateLimiter limiter(5, 1, logger, metrics, 3) of main.cpp
MainBucketCapacity == 5
MainRefillRate == 1
MainCacheCapacity == 3

Threads == 1..NumThreads
UserIds == {"userA", "userB"}
\* this_thread::sleep_for(milliseconds(100))
TickSteps == {100 * TicksPerMs}

NoCounters == [allowed |-> 0, blocked |-> 0]

\* UserBucket(capacity, refillRatePerSec), made for userId at time t
NewUserBucket(userId, t) ==
    [user |-> userId,
     algo |-> NewTokenBucket(config.capacity, config.refillRatePerSec, t),
     mtx |-> NoThread]

\* the address make_shared gives the next UserBucket
NewAddress == Cardinality(DOMAIN heap) + 1

\* (mutant of MapMtxFree) ensureBucket takes no lock
MapMtxIgnored == TRUE

\* lock_guard<mutex> lk(mapMtx) can be entered
MapMtxFree == mapMtx = NoThread

\* (mutant of Unlocked) ensureBucket returns with mapMtx still held by t
StillLocked(t) == t

\* ~lock_guard of lk when thread t returns from ensureBucket: mapMtx is free
Unlocked(t) == NoThread

\* (mutant of BucketMtxFree) allowRequest and approxTokens take no lock
BucketMtxIgnored(a) == TRUE

\* lock_guard<mutex> lock(mtx) of bucket a can be entered
BucketMtxFree(a) == heap[a].mtx = NoThread

\* (mutant of Inserted) the new bucket is stored under every key
InsertedForAll(m, userId, a) == [u \in config.users |-> a]

\* (mutant of Inserted) the new bucket is not stored in the map
NotInserted(m, userId, a) == m

\* buckets[userId] = ub
Inserted(m, userId, a) == (userId :> a) @@ m

\* the recency store main.cpp documents: a hit promotes, a miss inserts
Touch(c, userId, a) ==
    LET r == get(c, userId)
    IN IF r.found THEN r.c ELSE put(c, userId, a)

\* the documented store held userId once and holds it no more
Evicted(userId) ==
    /\ \E a \in DOMAIN heap : heap[a].user = userId
    /\ userId \notin DOMAIN recency.cacheMap

\* a limiter just constructed, its threads outside any call
Constructed ==
    /\ now = 0 /\ advances = 0
    /\ buckets = <<>> /\ heap = <<>> /\ mapMtx = NoThread
    /\ pc = [t \in Threads |-> "idle"]
    /\ arg = [t \in Threads |-> ""]
    /\ ub = [t \in Threads |-> Null]
    /\ allowed = [t \in Threads |-> FALSE]
    /\ global_ = NoCounters
    /\ perUser_ = <<>>
    /\ returned = [u \in config.users |-> NoCounters]
    /\ calls = 0
    /\ absent = [t \in Threads |-> FALSE]
    /\ recency = NewLRUCache(config.cacheCapacity)
    /\ seen = NoSeen
    /\ BucketUnused /\ LRUUnused

\* the limiter of the tests, called by every thread
Init ==
    /\ config = [capacity |-> TestBucketCapacity, refillRatePerSec |-> TestRefillRate,
                 cacheCapacity |-> MainCacheCapacity,
                 users |-> UserIds, requests |-> MaxRequests, ticks |-> MaxTicks]
    /\ Constructed

\* the limiter of main.cpp, called by main's thread
InitMain ==
    /\ config = [capacity |-> MainBucketCapacity, refillRatePerSec |-> MainRefillRate,
                 cacheCapacity |-> MainCacheCapacity,
                 users |-> Users, requests |-> MaxMainRequests, ticks |-> MaxTicks]
    /\ Constructed

\* steady_clock::now() as a thread reads it: the last value read, or a later one
ClockReads ==
    {now} \cup (IF advances < config.ticks THEN {now + d : d \in TickSteps} ELSE {})

\* a thread calls isRequestAllowed(userId)
Call(t) ==
    \E u \in config.users :
        /\ pc[t] = "idle" /\ calls < config.requests
        /\ calls' = calls + 1
        /\ arg' = [arg EXCEPT ![t] = u]
        /\ absent' = [absent EXCEPT ![t] = u \notin DOMAIN buckets]
        /\ pc' = [pc EXCEPT ![t] = "ensureLock"]
        /\ UNCHANGED <<cvars, bvars, lvars, config, seen, buckets, heap, mapMtx, ub, allowed,
                       global_, perUser_, returned, recency>>

\* ensureBucket: lock_guard<mutex> lk(mapMtx)
EnsureLock(t) ==
    /\ pc[t] = "ensureLock" /\ MapMtxFree
    /\ mapMtx' = t
    /\ pc' = [pc EXCEPT ![t] = "ensureFind"]
    /\ UNCHANGED <<cvars, bvars, lvars, config, seen, buckets, heap, arg, ub, allowed,
                   global_, perUser_, returned, calls, absent, recency>>

\* ensureBucket: buckets.find(userId); found: return it->second
EnsureFind(t) ==
    /\ pc[t] = "ensureFind"
    /\ IF arg[t] \in DOMAIN buckets
       THEN /\ ub' = [ub EXCEPT ![t] = buckets[arg[t]]]
            /\ mapMtx' = Unlocked(t)
            /\ recency' = Touch(recency, arg[t], buckets[arg[t]])
            /\ pc' = [pc EXCEPT ![t] = "allowLock"]
       ELSE /\ pc' = [pc EXCEPT ![t] = "ensureCreate"]
            /\ UNCHANGED <<ub, mapMtx, recency>>
    /\ UNCHANGED <<cvars, bvars, lvars, config, seen, buckets, heap, arg, allowed,
                   global_, perUser_, returned, calls, absent>>

\* ensureBucket: make_shared<UserBucket>, buckets[userId] = ub, return ub
EnsureCreate(t) ==
    \E clock \in ClockReads :
        LET a == NewAddress
        IN /\ pc[t] = "ensureCreate"
           /\ now' = clock
           /\ advances' = IF clock = now THEN advances ELSE advances + 1
           /\ heap' = (a :> NewUserBucket(arg[t], clock)) @@ heap
           /\ buckets' = Inserted(buckets, arg[t], a)
           /\ ub' = [ub EXCEPT ![t] = a]
           /\ mapMtx' = Unlocked(t)
           /\ recency' = Touch(recency, arg[t], a)
           /\ pc' = [pc EXCEPT ![t] = "allowLock"]
           /\ UNCHANGED <<bvars, lvars, config, seen, arg, allowed,
                          global_, perUser_, returned, calls, absent>>

\* ub->allowRequest(): lock_guard<mutex> lock(mtx)
AllowLock(t) ==
    /\ pc[t] = "allowLock" /\ BucketMtxFree(ub[t])
    /\ heap' = [heap EXCEPT ![ub[t]].mtx = t]
    /\ absent' = [absent EXCEPT ![t] = FALSE]
    /\ pc' = [pc EXCEPT ![t] = "allowBody"]
    /\ UNCHANGED <<cvars, bvars, lvars, config, seen, buckets, mapMtx, arg, ub, allowed,
                   global_, perUser_, returned, calls, recency>>

\* ub->allowRequest(): refillTokensLocked(), if (tokens >= 1.0); false: unlock
AllowBody(t) ==
    \E clock \in ClockReads :
        LET r == refillTokensLocked(heap[ub[t]].algo, clock)
        IN /\ pc[t] = "allowBody"
           /\ now' = clock
           /\ advances' = IF clock = now THEN advances ELSE advances + 1
           /\ allowed' = [allowed EXCEPT ![t] = HasToken(r)]
           /\ IF HasToken(r)
              THEN /\ heap' = [heap EXCEPT ![ub[t]].algo = r]
                   /\ pc' = [pc EXCEPT ![t] = "allowDeduct"]
              ELSE /\ heap' = [heap EXCEPT ![ub[t]].algo = r, ![ub[t]].mtx = NoThread]
                   /\ pc' = [pc EXCEPT ![t] = "tokensLock"]
           /\ UNCHANGED <<bvars, lvars, config, seen, buckets, mapMtx, arg, ub,
                          global_, perUser_, returned, calls, absent, recency>>

\* ub->allowRequest(): tokens -= 1.0; return true; unlock
AllowDeduct(t) ==
    /\ pc[t] = "allowDeduct"
    /\ heap' = [heap EXCEPT ![ub[t]].algo = TakeToken(heap[ub[t]].algo),
                            ![ub[t]].mtx = NoThread]
    /\ pc' = [pc EXCEPT ![t] = "tokensLock"]
    /\ UNCHANGED <<cvars, bvars, lvars, config, seen, buckets, mapMtx, arg, ub, allowed,
                   global_, perUser_, returned, calls, absent, recency>>

\* ub->tokens(): lock_guard<mutex> lock(mtx)
TokensLock(t) ==
    /\ pc[t] = "tokensLock" /\ BucketMtxFree(ub[t])
    /\ heap' = [heap EXCEPT ![ub[t]].mtx = t]
    /\ pc' = [pc EXCEPT ![t] = "tokensBody"]
    /\ UNCHANGED <<cvars, bvars, lvars, config, seen, buckets, mapMtx, arg, ub, allowed,
                   global_, perUser_, returned, calls, absent, recency>>

\* ub->tokens(): refill, read (the value goes to the logger only), unlock
TokensBody(t) ==
    \E clock \in ClockReads :
        LET r == approxTokens(heap[ub[t]].algo, clock)
        IN /\ pc[t] = "tokensBody"
           /\ now' = clock
           /\ advances' = IF clock = now THEN advances ELSE advances + 1
           /\ heap' = [heap EXCEPT ![ub[t]].algo = r.b, ![ub[t]].mtx = NoThread]
           /\ pc' = [pc EXCEPT ![t] = "recordGlobal"]
           /\ UNCHANGED <<bvars, lvars, config, seen, buckets, mapMtx, arg, ub, allowed,
                          global_, perUser_, returned, calls, absent, recency>>

\* shared_ptr::use_count() of the UserBucket at a: the map's and the callers'
use_count(a) ==
    Cardinality({u \in DOMAIN buckets : buckets[u] = a})
      + Cardinality({t \in Threads : ub[t] = a})

\* (mutant of Released) the caller's shared_ptr deletes the UserBucket whenever
\* it goes out of scope
ReleasedAlways(h, a, remaining) == Except(h, a)

\* ~shared_ptr of a reference to a: the UserBucket is deleted with the last one
Released(h, a, remaining) == IF remaining = 0 THEN Except(h, a) ELSE h

\* (mutant of Counters) operator[] hands out zeroed counters every time
CountersZeroed(m, user) == NoCounters

\* the counters of user in perUser_, default-constructed by operator[]
Counters(m, user) == IF user \in DOMAIN m THEN m[user] ELSE NoCounters

\* global_.allowed.fetch_add(1) or global_.blocked.fetch_add(1)
RecordGlobal(t) ==
    /\ pc[t] = "recordGlobal"
    /\ global_' = IF allowed[t]
                  THEN [global_ EXCEPT !.allowed = @ + 1]
                  ELSE [global_ EXCEPT !.blocked = @ + 1]
    /\ pc' = [pc EXCEPT ![t] = "recordUser"]
    /\ UNCHANGED <<cvars, bvars, lvars, config, seen, buckets, heap, mapMtx, arg, ub, allowed,
                   perUser_, returned, calls, absent, recency>>

\* under mtx_: perUser_[user] counted; then log and return allowed: the locals
\* go out of scope, the shared_ptr ub among them
RecordUser(t) ==
    LET c == Counters(perUser_, arg[t])
        r == returned[arg[t]]
    IN /\ pc[t] = "recordUser"
       /\ perUser_' = (arg[t] :> (IF allowed[t]
                                  THEN [c EXCEPT !.allowed = @ + 1]
                                  ELSE [c EXCEPT !.blocked = @ + 1])) @@ perUser_
       /\ returned' = [returned EXCEPT ![arg[t]] =
                          IF allowed[t] THEN [r EXCEPT !.allowed = @ + 1]
                                        ELSE [r EXCEPT !.blocked = @ + 1]]
       /\ ub' = [ub EXCEPT ![t] = Null]
       /\ heap' = IF ub[t] = Null THEN heap
                  ELSE Released(heap, ub[t], use_count(ub[t]) - 1)
       /\ arg' = [arg EXCEPT ![t] = ""]
       /\ allowed' = [allowed EXCEPT ![t] = FALSE]
       /\ pc' = [pc EXCEPT ![t] = "idle"]
       /\ UNCHANGED <<cvars, bvars, lvars, config, seen, buckets, mapMtx, global_, calls,
                      absent, recency>>

\* one step of thread t inside or into isRequestAllowed
Step(t) ==
    \/ Call(t)
    \/ EnsureLock(t)
    \/ EnsureFind(t)
    \/ EnsureCreate(t)
    \/ AllowLock(t)
    \/ AllowBody(t)
    \/ AllowDeduct(t)
    \/ TokensLock(t)
    \/ TokensBody(t)
    \/ RecordGlobal(t)
    \/ RecordUser(t)

Next == \E t \in Threads : Step(t)
Spec == Init /\ [][Next]_vars

\* the limiter of the tests, called by two threads, often enough for a key to
\* be allowed and denied before another key is first requested
MaxUserRequests == 3
InitUsers ==
    /\ config = [capacity |-> TestBucketCapacity, refillRatePerSec |-> TestRefillRate,
                 cacheCapacity |-> MainCacheCapacity,
                 users |-> UserIds, requests |-> MaxUserRequests, ticks |-> MaxTicks]
    /\ Constructed
NextUsers == Step(1) \/ Step(2)
SpecUsers == InitUsers /\ [][NextUsers]_vars

\* the limiter of the tests, called by two threads for the users of main.cpp,
\* often enough for the store main.cpp documents to be full and evict; every
\* call is made before the clock moves
MaxSharedRequests == 4
InitShared ==
    /\ config = [capacity |-> TestBucketCapacity, refillRatePerSec |-> TestRefillRate,
                 cacheCapacity |-> MainCacheCapacity,
                 users |-> Users, requests |-> MaxSharedRequests, ticks |-> 0]
    /\ Constructed
NextShared == Step(1) \/ Step(2)
SpecShared == InitShared /\ [][NextShared]_vars

\* main.cpp: one thread makes every call
NextMain == Step(1)
SpecMain == InitMain /\ [][NextMain]_vars

\* ---------------------- SpecAccessor: one bucket, with and without accessor
MaxAccessorAdvances == 3
MaxAccessorCalls == 3

\* the waits between two calls: one millisecond and a tick, and the rest of the
\* 100 ms in which a bucket of rate 10 earns one token
AccessorSteps == {TicksPerMs + 1, 100 * TicksPerMs - (TicksPerMs + 1)}

\* TokenBucket bucket(cap, rate) at time 0, and the same bucket a second time
InitAccessor ==
    /\ now = 0 /\ advances = 0
    /\ bucket \in {NewTokenBucket(c, r, 0) :
                      c \in 1..MaxCapacity, r \in {MainRefillRate, TestRefillRate}}
    /\ shadow = [b |-> bucket, results |-> <<>>]
    /\ results = <<>> /\ streak = 0 /\ lastCall = NoCall
    /\ LRUUnused /\ LimiterUnused

\* time passes for both buckets
AccessorAdvance ==
    \E d \in AccessorSteps :
        /\ advances < MaxAccessorAdvances
        /\ now' = now + d /\ advances' = advances + 1
        /\ UNCHANGED <<bvars, lvars, rvars>>

\* allowRequest() is called on both buckets
AccessorAllowRequest ==
    LET r == allowRequest(bucket, now)
        q == allowRequest(shadow.b, now)
    IN /\ Len(results) < MaxAccessorCalls
       /\ bucket' = r.b
       /\ results' = Append(results, r.ret)
       /\ shadow' = [b |-> q.b, results |-> Append(shadow.results, q.ret)]
       /\ UNCHANGED <<streak, lastCall, cvars, lvars, rvars>>

\* approxTokens() is called on the first bucket only
AccessorApproxTokens ==
    /\ bucket' = approxTokens(bucket, now).b
    /\ UNCHANGED <<results, streak, lastCall, shadow, cvars, lvars, rvars>>

NextAccessor == AccessorAdvance \/ AccessorAllowRequest \/ AccessorApproxTokens
SpecAccessor == InitAccessor /\ [][NextAccessor]_vars

\* ------------------------------------------------- SpecMetrics: one Metrics
MaxRecords == 3

\* Metrics metrics, its counters at zero; the threads record, a reader queries
InitMetrics ==
    /\ config = [capacity |-> TestBucketCapacity, refillRatePerSec |-> TestRefillRate,
                 cacheCapacity |-> MainCacheCapacity,
                 users |-> UserIds, requests |-> MaxRecords, ticks |-> MaxTicks]
    /\ Constructed

\* a thread calls recordAllowed(user) or recordBlocked(user)
MetricsCall(t) ==
    \E u \in config.users, outcome \in BOOLEAN :
        /\ pc[t] = "idle" /\ calls < config.requests
        /\ calls' = calls + 1
        /\ arg' = [arg EXCEPT ![t] = u]
        /\ allowed' = [allowed EXCEPT ![t] = outcome]
        /\ pc' = [pc EXCEPT ![t] = "recordGlobal"]
        /\ UNCHANGED <<cvars, bvars, lvars, config, seen, buckets, heap, mapMtx, ub,
                       global_, perUser_, returned, absent, recency>>

\* global(): global_.allowed.load(), the first element of the pair
GlobalAllowed ==
    /\ seen.pc = "idle"
    /\ seen' = [seen EXCEPT !.global.allowed = global_.allowed, !.pc = "globalBlocked"]
    /\ UNCHANGED <<cvars, bvars, lvars, config, buckets, heap, mapMtx, pc, arg, ub,
                   allowed, global_, perUser_, returned, calls, absent, recency>>

\* global(): global_.blocked.load(), the second element; return
GlobalBlocked ==
    /\ seen.pc = "globalBlocked"
    /\ seen' = [seen EXCEPT !.global.blocked = global_.blocked, !.pc = "idle"]
    /\ UNCHANGED <<cvars, bvars, lvars, config, buckets, heap, mapMtx, pc, arg, ub,
                   allowed, global_, perUser_, returned, calls, absent, recency>>

\* the body of user(user) under mtx_: {0,0} for a key not in perUser_
user(m, u) == IF u \in DOMAIN m THEN m[u] ELSE [allowed |-> 0, blocked |-> 0]

\* user(u), the whole call under lock_guard<mutex> lk(mtx_)
UserTotals ==
    \E u \in config.users :
        /\ seen.pc = "idle"
        /\ seen' = [seen EXCEPT !.key = u, !.user = user(perUser_, u)]
        /\ UNCHANGED <<cvars, bvars, lvars, config, buckets, heap, mapMtx, pc, arg, ub,
                       allowed, global_, perUser_, returned, calls, absent, recency>>

NextMetrics ==
    \/ \E t \in Threads : MetricsCall(t) \/ RecordGlobal(t) \/ RecordUser(t)
    \/ GlobalAllowed
    \/ GlobalBlocked
    \/ UserTotals
SpecMetrics == InitMetrics /\ [][NextMetrics]_vars

\* ------------------------------ SpecConfig: construction with any arguments
\* the int arguments a caller can pass: negative, zero, positive
Arguments == {-1, 0, 1}
\* the size_t argument of LRUCache(size_t cap): zero, positive
Sizes == {0, 1}

\* one object is constructed, whatever its arguments: no constructor checks them
InitConfig ==
    /\ now = 0 /\ advances = 0
    /\ \/ /\ config = [object |-> "TokenBucket"]
          /\ bucket \in {NewTokenBucket(c, r, 0) : c \in Arguments, r \in Arguments}
          /\ results = <<>> /\ streak = 0 /\ lastCall = NoCall /\ shadow = NoShadow
          /\ LRUUnused /\ NoLimiter
       \/ /\ config = [object |-> "LRUCache"]
          /\ cache \in {NewLRUCache(c) : c \in Sizes}
          /\ order = <<>> /\ lastOp = NoOp /\ written = <<>>
          /\ BucketUnused /\ NoLimiter
       \/ /\ config \in {[object |-> "RateLimiter",
                           capacity |-> c, refillRatePerSec |-> r,
                           cacheCapacity |-> MainCacheCapacity,
                           users |-> UserIds, requests |-> MaxRequests, ticks |-> MaxTicks] :
                              c \in Arguments, r \in Arguments}
          /\ Constructed

\* cache.put(key, value) on an empty list whose size() equals capacity 0:
\* cacheList.back() and pop_back() on an empty std::list are undefined; the
\* process is terminated, or goes on with nothing removed and the entry inserted
PutOnEmptyFull ==
    \E k \in Users, v \in Values :
        /\ cache.capacity = 0 /\ cache.cacheList = <<>>
        /\ \/ /\ lastOp' = [NoOp EXCEPT !.op = "terminated", !.key = k]
              /\ UNCHANGED <<cache, order, written>>
           \/ /\ cache' = InsertNoEvict(cache, k, v)
              /\ order' = <<k>> \o Without(order, k)
              /\ lastOp' = Observed("put", k, v, FALSE, cache, cache')
              /\ written' = (k :> v) @@ written
        /\ UNCHANGED <<cvars, bvars, rvars>>

NextConfig ==
    \/ config.object = "TokenBucket" /\ NextBucket
    \/ config.object = "LRUCache" /\ lastOp.op # "terminated" /\ LRUGet
    \/ /\ config.object = "LRUCache" /\ lastOp.op # "terminated"
       /\ ~(cache.capacity = 0 /\ cache.cacheList = <<>>)
       /\ LRUPut
    \/ config.object = "LRUCache" /\ lastOp.op # "terminated" /\ PutOnEmptyFull
    \/ config.object = "RateLimiter" /\ Step(1)
SpecConfig == InitConfig /\ [][NextConfig]_vars

\* ======================================================== claims, SpecBucket
Tokens(n) == n * MilliPerToken

\* C1: with no time elapsing, at most capacity consecutive allowRequest calls
\* return true before one returns false; on a fresh bucket the first capacity
\* calls return true and every later one, call capacity+1 included, false.
C1_AtMostCapacityInARow ==
    /\ Tokens(streak) <= bucket.capacity
    /\ now = 0 =>
         \A i \in 1..Len(results) : results[i] = (Tokens(i) <= bucket.capacity)

\* a fresh bucket has answered more than capacity calls with no time elapsed
C1_Witness ==
    /\ now = 0
    /\ Tokens(Len(results)) > bucket.capacity
    /\ ~results[Len(results)]

\* C3 as stated: a retry t after a denial refills exactly
\* min(capacity - tokens, refillRatePerSecond * t), t being the time elapsed
\* since the denial (both sides in thousandths of a token times TicksPerMs).
C3_RefillIsRateTimesElapsed ==
    lastCall.afterDeny =>
        (lastCall.refilled - lastCall.before.tokens) * TicksPerMs
            = Min((lastCall.before.capacity - lastCall.before.tokens) * TicksPerMs,
                  lastCall.before.refillRatePerSec * lastCall.elapsed)

\* C3 amended: a retry after a denial refills exactly
\* min(capacity - tokens, refillRatePerSec * ms / 1000), ms being the whole
\* milliseconds elapsed since lastRefillTime, and never beyond capacity; with
\* capacity 2 and rate 1, allow, allow, deny and a 1500 ms wait, it is allowed.
C3_RefillIsRateTimesWholeMs ==
    lastCall.afterDeny =>
        /\ lastCall.refilled - lastCall.before.tokens
             = Min(lastCall.before.capacity - lastCall.before.tokens,
                   lastCall.before.refillRatePerSec
                     * ((lastCall.at - lastCall.before.lastRefillTime) \div TicksPerMs))
        /\ lastCall.refilled <= lastCall.before.capacity
        /\ (/\ lastCall.before.capacity = Tokens(2)
            /\ lastCall.before.refillRatePerSec = 1
            /\ lastCall.elapsed = 1500 * TicksPerMs) => lastCall.ret

\* the scenario of the test: capacity 2, rate 1, allow, allow, deny, 1500 ms, allow
C3_Witness ==
    /\ bucket.capacity = Tokens(2) /\ bucket.refillRatePerSec = 1
    /\ results = <<TRUE, TRUE, FALSE, TRUE>>
    /\ lastCall.afterDeny /\ lastCall.elapsed = 1500 * TicksPerMs
    /\ now = 1500 * TicksPerMs

\* C4: 0 <= tokens <= capacity after any allowRequest calls, accessor calls
\* and clock advances.
C4_TokensWithinCapacity ==
    /\ 0 <= bucket.tokens
    /\ bucket.tokens <= bucket.capacity

\* a refill whose sum passed capacity has run, after tokens had been taken
C4_Witness ==
    /\ lastCall.kind # "none"
    /\ lastCall.before.tokens < lastCall.before.capacity
    /\ lastCall.before.tokens
         + msPassed(lastCall.before, lastCall.at) * lastCall.before.refillRatePerSec
         > lastCall.before.capacity
    /\ lastCall.refilled = bucket.capacity

\* ===================================================== claims, SpecAccessor
\* C17: approxTokens is read-only with respect to admission: the allowRequest
\* calls of a schedule return the same results whether or not approxTokens
\* calls are inserted into the schedule.
C17_AccessorChangesNoResult ==
    results = shadow.results

\* ========================================================== claims, SpecLRU
\* C6: the number of entries never exceeds the capacity fixed at construction.
C6_SizeWithinCapacity ==
    /\ Len(cache.cacheList) <= cache.capacity
    /\ Cardinality(DOMAIN cache.cacheMap) <= cache.capacity
    /\ Cardinality(DOMAIN cache.node) <= cache.capacity

\* a put of an absent key has run on a full cache
C6_Witness ==
    /\ lastOp.op = "put" /\ ~lastOp.found /\ lastOp.wasFull
    /\ Len(cache.cacheList) = cache.capacity

\* C7: a put of an absent key into a full store evicts exactly one entry, the
\* one whose last put or successful get is oldest, and keeps every other entry.
C7_EvictsExactlyTheLRU ==
    (lastOp.op = "put" /\ ~lastOp.found /\ lastOp.wasFull) =>
        /\ lastOp.evicted = {lastOp.lru}
        /\ lastOp.changed = {}
        /\ lastOp.key \in Keys(cache)
        /\ Cardinality(Keys(cache)) = cache.capacity
        /\ Range(ListKeys(cache)) = Keys(cache)

\* capacity 3: user1, user2, user3 inserted, user1 looked up, user4 inserted:
\* user2 is gone and user1, user3 stay
C7_Witness ==
    /\ cache.capacity = 3
    /\ lastOp.op = "put" /\ lastOp.key = "user4" /\ ~lastOp.found /\ lastOp.wasFull
    /\ order = <<"user4", "user1", "user3", "user2">>
    /\ lastOp.evicted = {"user2"}
    /\ Keys(cache) = {"user4", "user1", "user3"}

\* C15: the keys in the recency list are the keys of the lookup index, every
\* key has exactly one position in the list, and every index entry refers to
\* the list node that holds its own key; no node is outside the list.
C15_ListAndIndexAgree ==
    /\ Range(ListKeys(cache)) = Keys(cache)
    /\ Len(cache.cacheList) = Cardinality(Keys(cache))
    /\ Cardinality(Range(cache.cacheList)) = Len(cache.cacheList)
    /\ DOMAIN cache.node = Range(cache.cacheList)
    /\ \A k \in Keys(cache) :
          /\ cache.cacheMap[k] \in Range(cache.cacheList)
          /\ cache.node[cache.cacheMap[k]][1] = k

\* a key has been evicted before, and a get has just moved an entry that was
\* not at the front to the front
C15_Witness ==
    /\ Len(order) > cache.capacity
    /\ lastOp.op = "get" /\ lastOp.found
    /\ Len(cache.cacheList) >= 2
    /\ lastOp.lru = lastOp.key

\* C16: get of a present key returns its stored value and moves its entry to
\* the front of the list, the other entries keeping their relative order and
\* every stored value and index entry staying as it was; get of an absent key
\* reports not-found and changes nothing in the cache.
C16_GetMovesOnlyItsEntry ==
    [][lastOp'.op = "get" =>
          IF lastOp'.key \in Keys(cache)
          THEN /\ lastOp'.found
               /\ lastOp'.value = Stored(cache, lastOp'.key)
               /\ ListKeys(cache') = <<lastOp'.key>> \o Without(ListKeys(cache), lastOp'.key)
               /\ cache'.cacheMap = cache.cacheMap
               /\ cache'.node = cache.node
               /\ cache'.capacity = cache.capacity
          ELSE /\ ~lastOp'.found
               /\ cache' = cache]_vars

\* a get has found the entry at the back of a list of three and moved it to
\* the front
C16_Witness ==
    /\ Len(cache.cacheList) = 3
    /\ lastOp.op = "get" /\ lastOp.found
    /\ lastOp.lru = lastOp.key
    /\ ListKeys(cache)[1] = lastOp.key
    /\ lastOp.value = Stored(cache, lastOp.key)

\* C20: for capacity C >= 1 the cache holds exactly the min(C, n) most
\* recently touched keys, n being the number of distinct keys ever put, listed
\* from most to least recently touched (a touch is any put or a successful
\* get); each present key has the value of its latest put; and a put of a
\* present key evicts nothing and leaves the size as it was.
C20_HoldsTheMostRecentlyTouched ==
    [][/\ ListKeys(cache') = SubSeq(order', 1, Min(cache'.capacity, Len(order')))
       /\ \A k \in Keys(cache') : Stored(cache', k) = written'[k]
       /\ Range(order') = DOMAIN written'
       /\ (lastOp'.op = "put" /\ lastOp'.key \in Keys(cache)) =>
             /\ Keys(cache') = Keys(cache)
             /\ Len(cache'.cacheList) = Len(cache.cacheList)
             /\ lastOp'.evicted = {}]_vars

\* more keys have been put than the cache holds, a put has just given a new
\* value to a present key that was at the back, and another present key
\* stores a different value
C20_Witness ==
    /\ Len(order) > cache.capacity /\ cache.capacity >= 2
    /\ lastOp.op = "put" /\ lastOp.found /\ lastOp.lru = lastOp.key
    /\ Len(cache.cacheList) = cache.capacity
    /\ ListKeys(cache) = SubSeq(order, 1, cache.capacity)
    /\ \E k \in Keys(cache) \ {lastOp.key} : Stored(cache, k) # lastOp.value

\* ============================================================= claims, Spec
\* the threads whose call has its decision, and has not returned yet
Decided(t) == pc[t] \in {"allowDeduct", "tokensLock", "tokensBody", "recordGlobal", "recordUser"}

\* the decisions taken for userId so far, returned or not: all, and the true ones
Decisions(u) ==
    returned[u].allowed + returned[u].blocked
      + Cardinality({t \in Threads : Decided(t) /\ arg[t] = u})
Allowed(u) ==
    returned[u].allowed
      + Cardinality({t \in Threads : Decided(t) /\ arg[t] = u /\ allowed[t]})

\* C2: with no time elapsed, the calls made for one key by any number of
\* threads get exactly bucketCapacity true results, and false for the rest.
C2_ExactlyCapacityAllowed ==
    now = 0 => \A u \in config.users : Allowed(u) = Min(config.capacity, Decisions(u))

\* every thread is in a call for the same key at once, each with its decision,
\* more threads than tokens, and no time has elapsed
C2_Witness ==
    /\ now = 0 /\ NumThreads > config.capacity
    /\ \E u \in config.users :
          /\ \A t \in Threads : Decided(t) /\ arg[t] = u /\ pc[t] # "allowDeduct"
          /\ Cardinality({t \in Threads : allowed[t]}) = config.capacity

\* C5: the rate limiter never holds more than cacheCapacity user buckets.
C5_AtMostCacheCapacityBuckets ==
    Cardinality(DOMAIN buckets) <= config.cacheCapacity

\* C8: a request for a key whose state was evicted is served by a state created
\* for that request, with tokens at full capacity.
C8_EvictedKeyGetsFreshState ==
    [][\A t \in Threads :
          (/\ pc[t] \in {"ensureFind", "ensureCreate"}
           /\ pc'[t] = "allowLock"
           /\ Evicted(arg[t]))
          => /\ ub'[t] \notin DOMAIN heap
             /\ heap'[ub'[t]].algo.tokens = Tokens(config.capacity)]_vars

\* the states ever created for a key
CreatedFor(u) == {a \in DOMAIN heap : heap[a].user = u}

\* C9: threads that request the same absent key concurrently create at most one
\* state for it, and every caller operates on that state, the one in the store.
C9_OneStatePerKeyCreated ==
    /\ \A u \in config.users : Cardinality(CreatedFor(u)) <= 1
    /\ \A t \in Threads :
          ub[t] # Null =>
             /\ heap[ub[t]].user = arg[t]
             /\ arg[t] \in DOMAIN buckets
             /\ buckets[arg[t]] = ub[t]

\* two threads called for the same key while it had no state, and both hold
\* the one state created for it
C9_Witness ==
    \E t1, t2 \in Threads :
        /\ t1 # t2 /\ arg[t1] = arg[t2]
        /\ absent[t1] /\ absent[t2]
        /\ ub[t1] # Null /\ ub[t1] = ub[t2]

\* the states of a key that the store or an in-flight caller refers to
Live(u) ==
    {buckets[v] : v \in {u} \cap DOMAIN buckets}
      \cup {ub[t] : t \in {x \in Threads : ub[x] # Null /\ arg[x] = u}}

Locked(t) == {a \in DOMAIN heap : heap[a].mtx = t}

\* C19: no thread holds a bucket's lock while it holds mapMtx: mapMtx is
\* released before allowRequest or any token arithmetic of the call starts, and
\* no thread waits for one of the two locks while it holds the other.
C19_LocksAreNeverNested ==
    \A t \in Threads :
        /\ mapMtx = t =>
              /\ Locked(t) = {}
              /\ pc[t] \in {"ensureFind", "ensureCreate"}
        /\ Locked(t) # {} =>
              /\ mapMtx # t
              /\ Locked(t) = {ub[t]}
              /\ pc[t] \in {"allowBody", "allowDeduct", "tokensBody"}
        /\ pc[t] \in {"allowLock", "allowBody", "allowDeduct", "tokensLock", "tokensBody"}
              => mapMtx # t
        /\ pc[t] = "ensureLock" => Locked(t) = {}

\* one thread is inside allowRequest, holding its bucket's lock, while another
\* holds mapMtx to create a bucket
C19_Witness ==
    \E t1, t2 \in Threads :
        /\ pc[t1] = "allowDeduct" /\ Locked(t1) = {ub[t1]}
        /\ pc[t2] = "ensureCreate" /\ mapMtx = t2

\* ======================================================== claims, SpecUsers
\* C13: keys are handled separately: a step of isRequestAllowed(A) leaves the
\* bucket (tokens, refill time, lock) and the map entry of every other key B
\* unchanged, and the first decision taken for a key is true whatever was
\* decided for other keys before (capacity 1: A allowed, A denied, B allowed).
C13_KeysAreSeparate ==
    [][\A u \in config.users :
          /\ \A a \in DOMAIN heap :
                /\ a \in DOMAIN heap'
                /\ (heap[a].user = u /\ heap'[a] # heap[a]) =>
                      \E t \in Threads : pc'[t] # pc[t] /\ ub[t] = a /\ arg[t] = u
          /\ u \in DOMAIN buckets => u \in DOMAIN buckets' /\ buckets'[u] = buckets[u]
          /\ Decisions(u)' >= 1 => Allowed(u)' >= 1]_vars

\* capacity 1: one key was allowed and then denied, its bucket is empty, and
\* another key's first request has just been allowed
C13_Witness ==
    \E u, v \in config.users :
        /\ u # v /\ config.capacity = 1
        /\ returned[u] = [allowed |-> 1, blocked |-> 1]
        /\ \A a \in CreatedFor(u) : ~HasToken(heap[a].algo)
        /\ returned[v] = NoCounters
        /\ \E t \in Threads : arg[t] = v /\ pc[t] = "tokensLock" /\ allowed[t]

\* ====================================================== claims, SpecMetrics
\* the sum over all keys of the per-key totals
RECURSIVE SumAllowed(_, _)
SumAllowed(m, ks) ==
    IF ks = {} THEN 0
    ELSE LET k == CHOOSE x \in ks : TRUE
         IN user(m, k).allowed + SumAllowed(m, ks \ {k})
RECURSIVE SumBlocked(_, _)
SumBlocked(m, ks) ==
    IF ks = {} THEN 0
    ELSE LET k == CHOOSE x \in ks : TRUE
         IN user(m, k).blocked + SumBlocked(m, ks \ {k})

\* C11: in every reachable state the global allowed total is the sum of the
\* per-key allowed totals and the global blocked total the sum of the per-key
\* blocked totals, whatever threads are inside recordAllowed or recordBlocked.
C11_GlobalIsSumOfUsers ==
    /\ global_.allowed = SumAllowed(perUser_, config.users)
    /\ global_.blocked = SumBlocked(perUser_, config.users)

\* ======================================================= claims, SpecShared
\* the threads inside isRequestAllowed that hold a reference to a UserBucket
Holding(t) == ub[t] # Null

Completed == calls - Cardinality({t \in Threads : pc[t] # "idle"})

\* the calls for u that have taken their token and not recorded it yet
Unrecorded(u) ==
    {t \in Threads : /\ arg[t] = u /\ allowed[t]
                     /\ pc[t] \in {"tokensLock", "tokensBody", "recordGlobal",
                                   "recordUser"}}

\* C14: every completed isRequestAllowed(key) has recorded exactly one outcome
\* for its key, recordAllowed if it returned true and recordBlocked if false:
\* user(key) is (number of true results, number of false results) of the
\* completed calls for key, and (0, 0) for a key never requested; with no time
\* elapsed, the allowed total is the number of tokens taken from the bucket.
C14_TotalsAreTheReturnedResults ==
    /\ \A u \in config.users : user(perUser_, u) = returned[u]
    /\ \A u \in config.users :
          (u \notin DOMAIN buckets /\ \A t \in Threads : arg[t] # u) =>
              user(perUser_, u) = NoCounters
    /\ SumAllowed(perUser_, config.users) + SumBlocked(perUser_, config.users)
          = Completed
    /\ now = 0 =>
          \A u \in DOMAIN buckets :
              heap[buckets[u]].algo.tokens
                + Tokens(user(perUser_, u).allowed + Cardinality(Unrecorded(u)))
                  = Tokens(config.capacity)

\* two calls for one key have returned, one true and one false, and the other
\* key was never requested
C14_Witness ==
    \E u, v \in config.users :
        /\ u # v
        /\ user(perUser_, u) = [allowed |-> 1, blocked |-> 1]
        /\ Completed = 2
        /\ v \notin DOMAIN buckets /\ v \notin DOMAIN perUser_

\* ======================================================= claims, SpecConfig
\* C12: a non-positive bucket capacity, refill rate or cache capacity is
\* rejected at construction: no bucket, cache or limiter carrying one ever has
\* allowRequest, get, put or isRequestAllowed run on it.
C12_NonPositiveRejected ==
    /\ lastCall.kind # "none" => bucket.capacity > 0 /\ bucket.refillRatePerSec > 0
    /\ lastOp.op # "none" => cache.capacity > 0
    /\ calls > 0 => config.capacity > 0 /\ config.refillRatePerSec > 0
    /\ \A a \in DOMAIN heap :
          heap[a].algo.capacity > 0 /\ heap[a].algo.refillRatePerSec > 0

====
